---- MODULE Spec2Model ----
(***************************************************************************)
(* Video concatenation service: the web job pipeline of web_app.py (job    *)
(* registry, one worker per job, the reaper, the HTTP handlers) and the    *)
(* compression search and command-line pipeline of concat_videos.py.       *)
(*                                                                         *)
(* Sizes are held in hundredths of a megabyte (cMB): get_file_size_mb      *)
(* returns a float number of MB, and round(x, 1) keeps tenths (dMB).       *)
(*                                                                         *)
(* The external programs (ffmpeg, ffprobe) and the network answer as they  *)
(* like; calls on the local file system (mkdtemp, rmtree, move, unlink,    *)
(* getsize of a file that exists) are taken to succeed.                    *)
(***************************************************************************)
EXTENDS Integers, Sequences, FiniteSets, TLC

\* ------------------------------------------------------------------ bounds
MaxJobs == 1
MaxUrls == 2

\* ------------------------------------------------------- program constants
MinSizeMb == 10
MaxSizeMb == 500
MinUrls == 2

\* ------------------------------------------------------------ value domains
JobIds == 1..MaxJobs
Absent == -1
NoUrl == "none"
UrlNames == <<"u1", "u2", "u3", "u4">>
UrlList(n) == [k \in 1..n |-> UrlNames[k]]
\* a submission of two URLs whose paths end in the same file name
SameNameList == <<"u1", "u3">>
UrlLists == {UrlList(n) : n \in 0..MaxUrls} \cup {SameNameList}

\* os.path.basename(urlparse(url).path): u1 and u3 end in a.mp4, the path of u2 is
\* empty (all names carry a video extension, so none is appended)
Basename(url) ==
    CASE url = "u1" -> "a.mp4"
      [] url = "u2" -> ""
      [] url = "u3" -> "a.mp4"
      [] OTHER -> "b.mp4"
\* f"video_{n}.mp4"
VideoN(n) == <<"video_1.mp4", "video_2.mp4", "video_3.mp4", "video_4.mp4">>[n]
\* the file name under temp_dir of the n-th URL (n = i + 1)
TempPath(url, n) == IF Basename(url) = "" THEN VideoN(n) ELSE Basename(url)
Paths == {"a.mp4", "b.mp4"} \cup {VideoN(n) : n \in 1..4}
\* the files of a temp_dir: for each path the URL whose content it holds
NoFiles == [p \in Paths |-> NoUrl]
\* max_size_mb values a client submits: below, on and above both limits
SizeChoices == {5, 9, 10, 500, 501}
\* sizes (cMB) the concat engine can leave at output_path: 10 MB, 18.04 MB, 600 MB
ConcatSizes == {1000, 1804, 60000}
OutputName == "concatenated_video.mp4"
\* get_video_info: True, False on CalledProcessError, or FileNotFoundError (no ffprobe
\* on the host), which it does not catch; its subprocess.run has no timeout, so an
\* ffprobe that never exits keeps the caller waiting for ever
ProbeOutcomes == {"ok", "rejected", "raised", "hangs"}

VARIABLES
    jobs,      \* web_app.jobs: job id -> record (a dict; absent keys are Absent/"absent")
    nextId,    \* number of job ids handed out so far, plus one
    worker,    \* per job id: the position and locals of process_concatenation
    outFile,   \* per job id: size (cMB) of the file at output_path, Absent if none
    tmpDir,    \* per job id: the job's temp directory exists
    manifest,  \* per job id: the concat list file exists
    tempCompressed, \* per job id: size of output_path + '.compressed.mp4', Absent if none
    aged,      \* jobs 1..aged were created more than 3600 s ago
    reaper,    \* the cleanup thread: position, iterator and to_remove
    http,      \* the response of the request handled by the last step, if any
    entryPoint, \* the program that runs: web_app.py, the concat_videos.py command
               \* line, or a caller of compress_video alone
    comp,      \* the activation of compress_video outside the web worker
    cli        \* the activation of process_videos_from_urls

vars == <<jobs, nextId, worker, outFile, tmpDir, manifest, tempCompressed, aged, reaper, http,
          entryPoint, comp, cli>>

\* ----------------------------------------------------------------- records
Status(name, i, n) == [name |-> name, i |-> i, n |-> n]
St(name) == Status(name, 0, 0)
NoError == [msg |-> "absent", url |-> NoUrl]
Err(msg, url) == [msg |-> msg, url |-> url]

\* The record concatenate_api stores for a new job; keys the dict does not hold yet
\* are Absent / "absent".
NewRecord ==
    [status |-> St("queued"), error |-> NoError, output_file |-> Absent,
     output_filename |-> "absent", file_size |-> Absent, original_size |-> Absent,
     was_compressed |-> "absent", compression_ratio |-> Absent]

NoOffer == [asked |-> FALSE, avail |-> FALSE, duration |-> 0, promoted |-> 0]

IdleWorker ==
    [pc |-> "idle", urls |-> <<>>, max_size_mb |-> 0, mode |-> "none", i |-> 0,
     downloaded |-> <<>>, original_size |-> Absent, final_size |-> Absent,
     \* what the collaborators did for this job (observations, not read by the code):
     \* the URL index whose fetch / probe failed, the calls made, and what the engine
     \* answered to the compression call
     dlFailed |-> 0, probeFailed |-> 0, fetched |-> 0, probed |-> 0, concats |-> 0,
     offer |-> NoOffer,
     \* the content of temp_dir
     held |-> NoFiles,
     \* result.returncode of the concat engine (line 254), Absent before it ran
     returncode |-> Absent,
     \* how many times process_concatenation was started with this job id
     starts |-> 0,
     \* the statuses written into the record of this job, in the order of the writes
     written |-> <<>>]

\* The body of an HTTP answer: the JSON keys of all handlers, "none"/Absent when the
\* answer does not carry the key; sent is the size of the file send_file streams.
NoBody ==
    [status |-> St("none"), error |-> NoError, download_url |-> FALSE, filename |-> "none",
     file_size |-> Absent, original_size |-> Absent, was_compressed |-> "none",
     compression_ratio |-> Absent, urls |-> Absent, max_size_mb |-> Absent, sent |-> Absent]
NoHttp == [op |-> "none", code |-> 0, err |-> "none", job |-> 0, body |-> NoBody]
Http(op, code, err, job, body) ==
    [op |-> op, code |-> code, err |-> err, job |-> job, body |-> body]

SleepingReaper == [pc |-> "sleep", now |-> 0, len |-> 0, pos |-> 0, to_remove |-> <<>>]

\* round(x, 1) of a size in cMB, in dMB
Round1(c) == (c + 5) \div 10

\* get_file_size_mb: the size of the file, 0 when os.path.getsize raises OSError
get_file_size_mb(f) == IF f = Absent THEN 0 ELSE f

HasJob(j) == j \in DOMAIN jobs

\* ------------------------------------------------- compress_video, its entry
\* An argument of compress_video as the caller passed it: a number of MB or a path.
NumArg(n) == [kind |-> "num", val |-> n]
PathArg == [kind |-> "str", val |-> 0]

\* Lines 63-80 of compress_video, up to the ladder: the engine check, then
\* original_mb <= target_size_mb, which raises TypeError when target_size_mb is a
\* str, then the duration probe.
compress_video_entry(avail, original, target, duration) ==
    IF ~avail THEN "False"
    ELSE IF target.kind = "str" THEN "TypeError"
    ELSE IF original <= 100 * target.val THEN "True"
    ELSE IF duration \in {Absent, 0} THEN "False"
    ELSE "ladder"

\* Python binds positional arguments to def compress_video(input_path,
\* target_size_mb=100, max_attempts=4) in order.
BindCompressArgs(a1, a2, a3) == [input_path |-> a1, target_size_mb |-> a2, max_attempts |-> a3]

\* ------------------------------------------- process_concatenation (worker)
WSet(j, r) == worker' = [worker EXCEPT ![j] = r]
WGoto(j, pc) == worker' = [worker EXCEPT ![j].pc = pc]
PutEveryRecord(j, field, val) ==
    jobs' = [k \in DOMAIN jobs |-> [jobs[k] EXCEPT ![field] = val]]
Put(j, field, val) == jobs' = [jobs EXCEPT ![j][field] = val]
Files == <<outFile, tmpDir, manifest, tempCompressed>>
Env == <<nextId, aged, reaper>>
Cmd == <<entryPoint, comp, cli>>

\* the worker record once jobs[job_id][field] = val was executed
Noted(w, field, val) ==
    IF field = "status" THEN [w EXCEPT !.written = Append(@, val)] ELSE w

\* jobs[job_id][field] = val in process_concatenation: KeyError, caught at line 231,
\* when the registry no longer holds the job.
WriteTop(j, field, val, next) ==
    IF HasJob(j)
    THEN Put(j, field, val) /\ WSet(j, Noted(next, field, val))
    ELSE UNCHANGED jobs /\ WGoto(j, "L232")

\* line 176: status, then the temp directory
WStart(j) ==
    /\ worker[j].pc = "L176"
    /\ IF HasJob(j)
       THEN /\ Put(j, "status", St("downloading_videos"))
            /\ WSet(j, Noted([worker[j] EXCEPT !.pc = "L184"], "status",
                              St("downloading_videos")))
            /\ tmpDir' = [tmpDir EXCEPT ![j] = TRUE]
       ELSE UNCHANGED <<jobs, tmpDir>> /\ WGoto(j, "L232")
    /\ http' = NoHttp
    /\ UNCHANGED <<Env, Cmd, outFile, manifest, tempCompressed>>

\* WLoop writing the 0-based loop index into the status
WLoopZeroBased(j) ==
    LET w == worker[j]
        n == Len(w.urls)
    IN  /\ w.pc = "L184"
        /\ IF w.i < n
           THEN WriteTop(j, "status", Status("downloading_video", w.i, n),
                         [w EXCEPT !.pc = "L195"])
           ELSE IF Len(w.downloaded) < MinUrls
           THEN WriteTop(j, "status", St("failed"), [w EXCEPT !.pc = "L209"])
           ELSE WriteTop(j, "status", St("concatenating_videos"), [w EXCEPT !.pc = "L238"])
        /\ http' = NoHttp
        /\ UNCHANGED <<Env, Cmd, Files>>

\* line 184 for the next URL; after the last one lines 207-213
WLoop(j) ==
    LET w == worker[j]
        n == Len(w.urls)
    IN  /\ w.pc = "L184"
        /\ IF w.i < n
           THEN WriteTop(j, "status", Status("downloading_video", w.i + 1, n),
                         [w EXCEPT !.pc = "L195"])
           ELSE IF Len(w.downloaded) < MinUrls
           THEN WriteTop(j, "status", St("failed"), [w EXCEPT !.pc = "L209"])
           ELSE WriteTop(j, "status", St("concatenating_videos"), [w EXCEPT !.pc = "L238"])
        /\ http' = NoHttp
        /\ UNCHANGED <<Env, Cmd, Files>>

\* WFetch that warns and goes on to the next URL when a fetch or a probe fails, as
\* the loop of concat-videos.py does
WFetchSkipping(j) ==
    LET w == worker[j]
    IN  /\ w.pc = "L195"
        /\ \E downloaded \in BOOLEAN, probe \in ProbeOutcomes :
             LET valid == probe = "ok"
                 temp_path == TempPath(w.urls[w.i + 1], w.i + 1)
                 seen == [w EXCEPT !.fetched = w.fetched + 1,
                                   !.held = IF downloaded
                                            THEN [@ EXCEPT ![temp_path] = w.urls[w.i + 1]]
                                            ELSE @,
                                   !.probed = IF downloaded THEN w.probed + 1 ELSE w.probed,
                                   !.dlFailed = IF ~downloaded /\ w.dlFailed = 0
                                                THEN w.i + 1 ELSE w.dlFailed,
                                   !.probeFailed = IF downloaded /\ probe = "rejected"
                                                      /\ w.probeFailed = 0
                                                   THEN w.i + 1 ELSE w.probeFailed]
             IN  /\ WSet(j, IF downloaded /\ probe = "hangs"
                             THEN [seen EXCEPT !.pc = "blocked"]
                             ELSE [seen EXCEPT !.pc = "L184", !.i = w.i + 1,
                                               !.downloaded = IF downloaded /\ valid
                                                              THEN Append(w.downloaded, temp_path)
                                                              ELSE w.downloaded])
                 /\ UNCHANGED jobs
        /\ http' = NoHttp
        /\ UNCHANGED <<Env, Cmd, Files>>

\* lines 195-205: download_video then get_video_info on URL i+1; the first failure
\* writes status failed. An exception of get_video_info goes to the handler of
\* line 231.
WFetch(j) ==
    LET w == worker[j]
    IN  /\ w.pc = "L195"
        /\ \E downloaded \in BOOLEAN, probe \in ProbeOutcomes :
             LET valid == probe = "ok"
                 temp_path == TempPath(w.urls[w.i + 1], w.i + 1)
                 seen == [w EXCEPT !.fetched = w.fetched + 1,
                                   !.held = IF downloaded
                                            THEN [@ EXCEPT ![temp_path] = w.urls[w.i + 1]]
                                            ELSE @,
                                   !.probed = IF downloaded THEN w.probed + 1 ELSE w.probed,
                                   !.dlFailed = IF ~downloaded /\ w.dlFailed = 0
                                                THEN w.i + 1 ELSE w.dlFailed,
                                   !.probeFailed = IF downloaded /\ probe = "rejected"
                                                      /\ w.probeFailed = 0
                                                   THEN w.i + 1 ELSE w.probeFailed]
             IN  IF downloaded /\ valid
                 THEN /\ WSet(j, [seen EXCEPT !.pc = "L184", !.i = w.i + 1,
                                      !.downloaded = Append(w.downloaded, temp_path)])
                      /\ UNCHANGED jobs
                 ELSE IF downloaded /\ probe = "raised"
                 THEN WSet(j, [seen EXCEPT !.pc = "L232"]) /\ UNCHANGED jobs
                 ELSE IF downloaded /\ probe = "hangs"
                 THEN WSet(j, [seen EXCEPT !.pc = "blocked"]) /\ UNCHANGED jobs
                 ELSE IF downloaded
                 THEN WriteTop(j, "status", St("failed"), [seen EXCEPT !.pc = "L200"])
                 ELSE WriteTop(j, "status", St("failed"), [seen EXCEPT !.pc = "L204"])
        /\ http' = NoHttp
        /\ UNCHANGED <<Env, Cmd, Files>>

\* the early returns of lines 201, 205, 210 without the error text
WFailTextOmitted(j) ==
    /\ worker[j].pc \in {"L200", "L204", "L209"}
    /\ WGoto(j, "done")
    /\ http' = NoHttp
    /\ UNCHANGED <<jobs, Env, Cmd, Files>>

\* lines 200-201, 204-205, 209-210: the error text, then return (no cleanup)
WFailText(j) ==
    LET w == worker[j]
    IN  /\ w.pc \in {"L200", "L204", "L209"}
        /\ WriteTop(j, "error",
                    CASE w.pc = "L200" -> Err("Invalid video file", w.urls[w.i + 1])
                      [] w.pc = "L204" -> Err("Failed to download", w.urls[w.i + 1])
                      [] w.pc = "L209" -> Err("Need at least 2 valid videos to concatenate", NoUrl),
                    [w EXCEPT !.pc = "done"])
        /\ http' = NoHttp
        /\ UNCHANGED <<Env, Cmd, Files>>

\* ------------------------------ concatenate_videos_with_tracking (worker)
\* compression_ratio of lines 288-289: a percentage rounded to one decimal, held in
\* tenths of a percent
CompressionRatio(original, final) ==
    ((original - final) * 2000 + original) \div (2 * original)

\* ReturnFalse without the finally of line 316: the list file stays
ReturnFalseKeepsList(j, w) ==
    /\ UNCHANGED manifest
    /\ WSet(j, [w EXCEPT !.pc = "L225"])

\* return False from concatenate_videos_with_tracking (lines 311 and 313-315), through
\* the finally of line 318, into the else branch of line 224
ReturnFalse(j, w) ==
    /\ manifest' = [manifest EXCEPT ![j] = FALSE]
    /\ WSet(j, [w EXCEPT !.pc = "L225"])

\* return True (line 308), through the finally, to line 218
ReturnTrue(j, w) ==
    /\ manifest' = [manifest EXCEPT ![j] = FALSE]
    /\ WSet(j, [w EXCEPT !.pc = "L218"])

\* jobs[job_id][field] = val inside the try of line 245: a KeyError is caught at 313
WriteIn(j, field, val, next) ==
    IF HasJob(j)
    THEN Put(j, field, val) /\ WSet(j, Noted(next, field, val)) /\ UNCHANGED manifest
    ELSE UNCHANGED jobs /\ ReturnFalse(j, worker[j])

\* WConcat that does not look at the exit code of the engine
WConcatUnchecked(j) ==
    LET w == [worker[j] EXCEPT !.concats = @ + 1]
    IN  /\ w.pc = "L238"
        /\ \/ \E size \in ConcatSizes :
                /\ outFile' = [outFile EXCEPT ![j] = size]
                /\ manifest' = [manifest EXCEPT ![j] = TRUE]
                /\ WSet(j, [w EXCEPT !.pc = "L255", !.returncode = 0])
           \/ \E partial \in {Absent, 1804} :
                /\ outFile' = [outFile EXCEPT ![j] = partial]
                /\ manifest' = [manifest EXCEPT ![j] = TRUE]
                /\ WSet(j, [w EXCEPT !.pc = "L255", !.returncode = 1])
           \/ \E partial \in {Absent, 1804} :
                /\ outFile' = [outFile EXCEPT ![j] = partial]
                /\ manifest' = [manifest EXCEPT ![j] = TRUE]
                /\ WSet(j, [w EXCEPT !.pc = "blocked"])
        /\ http' = NoHttp
        /\ UNCHANGED <<jobs, Env, Cmd, tmpDir, tempCompressed>>

\* lines 238-254 and 309-311: the list file, then the concat engine; subprocess.run
\* of line 252 has no timeout, so an engine that never exits keeps the worker at
\* that line
WConcat(j) ==
    LET w == [worker[j] EXCEPT !.concats = @ + 1]
    IN  /\ w.pc = "L238"
        /\ \/ \E size \in ConcatSizes :          \* exit code 0
                /\ outFile' = [outFile EXCEPT ![j] = size]
                /\ manifest' = [manifest EXCEPT ![j] = TRUE]
                /\ WSet(j, [w EXCEPT !.pc = "L255", !.returncode = 0])
           \/ \E partial \in {Absent, 1804} :    \* nonzero exit
                /\ outFile' = [outFile EXCEPT ![j] = partial]
                /\ ReturnFalse(j, [w EXCEPT !.returncode = 1])
           \/ \E partial \in {Absent, 1804} :    \* the engine never exits
                /\ outFile' = [outFile EXCEPT ![j] = partial]
                /\ manifest' = [manifest EXCEPT ![j] = TRUE]
                /\ WSet(j, [w EXCEPT !.pc = "blocked"])
        /\ http' = NoHttp
        /\ UNCHANGED <<jobs, Env, Cmd, tmpDir, tempCompressed>>

\* lines 255-259
WOriginalSize(j) ==
    LET w == worker[j]
        original_size == get_file_size_mb(outFile[j])
    IN  /\ w.pc = "L255"
        /\ WriteIn(j, "original_size", Round1(original_size),
                   [w EXCEPT !.pc = "L260", !.original_size = original_size])
        /\ http' = NoHttp
        /\ UNCHANGED <<Env, Cmd, outFile, tmpDir, tempCompressed>>

\* line 260
WNotCompressed(j) ==
    LET w == worker[j]
    IN  /\ w.pc = "L260"
        /\ WriteIn(j, "was_compressed", "False", [w EXCEPT !.pc = "L263"])
        /\ http' = NoHttp
        /\ UNCHANGED <<Env, Cmd, outFile, tmpDir, tempCompressed>>

\* WSizeCheck that also compresses a file of exactly max_size_mb
WSizeCheckInclusive(j) ==
    LET w == worker[j]
    IN  /\ w.pc = "L263"
        /\ IF w.original_size >= 100 * w.max_size_mb
           THEN WriteIn(j, "status", St("compressing_video"), [w EXCEPT !.pc = "L273"])
           ELSE UNCHANGED jobs /\ ReturnTrue(j, w)
        /\ http' = NoHttp
        /\ UNCHANGED <<Env, Cmd, outFile, tmpDir, tempCompressed>>

\* lines 263-265 and 305-308
WSizeCheck(j) ==
    LET w == worker[j]
    IN  /\ w.pc = "L263"
        /\ IF w.original_size > 100 * w.max_size_mb
           THEN WriteIn(j, "status", St("compressing_video"), [w EXCEPT !.pc = "L273"])
           ELSE UNCHANGED jobs /\ ReturnTrue(j, w)
        /\ http' = NoHttp
        /\ UNCHANGED <<Env, Cmd, outFile, tmpDir, tempCompressed>>

\* lines 273-304: compress_video(output_path, temp_compressed, max_size_mb), then
\* the check of temp_compressed. A call that reaches the ladder is summarised by its
\* two outcomes: an attempt at most target was moved to input_path and the call
\* returned True, or the input was left alone and it returned False.
WCompress(j) ==
    LET args == BindCompressArgs(PathArg, PathArg, NumArg(worker[j].max_size_mb))
    IN  /\ worker[j].pc = "L273"
        /\ \E avail \in BOOLEAN, duration \in {0, 1}, promoted \in {0, 1000} :
             LET w == [worker[j] EXCEPT !.offer = [asked |-> TRUE, avail |-> avail,
                                                   duration |-> duration,
                                                   promoted |-> promoted]]
                 e == compress_video_entry(avail, w.original_size,
                                           args.target_size_mb, duration)
                 moved == e = "ladder" /\ promoted > 0
                 compression_success == e = "True" \/ moved
                 input == IF moved THEN promoted ELSE outFile[j]
             IN  IF e = "TypeError"
                 THEN UNCHANGED <<jobs, outFile, tempCompressed>> /\ ReturnFalse(j, w)
                 ELSE IF compression_success /\ tempCompressed[j] # Absent
                 THEN /\ outFile' = [outFile EXCEPT ![j] = input]
                      /\ WSet(j, [w EXCEPT !.pc = "L281"])
                      /\ UNCHANGED <<jobs, manifest, tempCompressed>>
                 ELSE /\ outFile' = [outFile EXCEPT ![j] = input]
                      /\ WSet(j, [w EXCEPT !.pc = "L301"])
                      /\ UNCHANGED <<jobs, manifest, tempCompressed>>
        /\ http' = NoHttp
        /\ UNCHANGED <<Env, Cmd, tmpDir>>

\* WKeepOriginal that records the size of the kept file as a share of the original
\* where lines 294 and 301 record 0
WKeepOriginalShare(j) ==
    LET w == worker[j]
        size == get_file_size_mb(tempCompressed[j])
    IN  /\ w.pc \in {"L301", "L281", "L289"}
        /\ http' = NoHttp
        /\ UNCHANGED <<Env, Cmd, tmpDir>>
        /\ IF ~HasJob(j)
           THEN UNCHANGED <<jobs, outFile, tempCompressed>> /\ ReturnFalse(j, w)
           ELSE CASE w.pc = "L301" ->
                       /\ Put(j, "compression_ratio", (1000 * outFile[j]) \div w.original_size)
                       /\ tempCompressed' = [tempCompressed EXCEPT ![j] = Absent]
                       /\ UNCHANGED outFile
                       /\ ReturnTrue(j, w)
                  [] w.pc = "L281" /\ size > 0 ->
                       /\ outFile' = [outFile EXCEPT ![j] = size]
                       /\ tempCompressed' = [tempCompressed EXCEPT ![j] = Absent]
                       /\ Put(j, "was_compressed", "True")
                       /\ WSet(j, [w EXCEPT !.pc = "L289", !.final_size = size])
                       /\ UNCHANGED manifest
                  [] w.pc = "L281" /\ size <= 0 ->
                       /\ Put(j, "compression_ratio", (1000 * outFile[j]) \div w.original_size)
                       /\ tempCompressed' = [tempCompressed EXCEPT ![j] = Absent]
                       /\ UNCHANGED outFile
                       /\ ReturnTrue(j, w)
                  [] w.pc = "L289" ->
                       /\ Put(j, "compression_ratio",
                              CompressionRatio(w.original_size, w.final_size))
                       /\ UNCHANGED <<outFile, tempCompressed>>
                       /\ ReturnTrue(j, w)

\* lines 301-308: compression_ratio = 0, drop temp_compressed, keep the original,
\* return True; lines 278-296 when temp_compressed exists
WKeepOriginal(j) ==
    LET w == worker[j]
        size == get_file_size_mb(tempCompressed[j])
    IN  /\ w.pc \in {"L301", "L281", "L289"}
        /\ http' = NoHttp
        /\ UNCHANGED <<Env, Cmd, tmpDir>>
        /\ IF ~HasJob(j)
           THEN UNCHANGED <<jobs, outFile, tempCompressed>> /\ ReturnFalse(j, w)
           ELSE CASE w.pc = "L301" ->
                       /\ Put(j, "compression_ratio", 0)
                       /\ tempCompressed' = [tempCompressed EXCEPT ![j] = Absent]
                       /\ UNCHANGED outFile
                       /\ ReturnTrue(j, w)
                  [] w.pc = "L281" /\ size > 0 ->
                       /\ outFile' = [outFile EXCEPT ![j] = size]
                       /\ tempCompressed' = [tempCompressed EXCEPT ![j] = Absent]
                       /\ Put(j, "was_compressed", "True")
                       /\ WSet(j, [w EXCEPT !.pc = "L289", !.final_size = size])
                       /\ UNCHANGED manifest
                  [] w.pc = "L281" /\ size <= 0 ->
                       /\ Put(j, "compression_ratio", 0)
                       /\ tempCompressed' = [tempCompressed EXCEPT ![j] = Absent]
                       /\ UNCHANGED outFile
                       /\ ReturnTrue(j, w)
                  [] w.pc = "L289" ->
                       /\ Put(j, "compression_ratio",
                              CompressionRatio(w.original_size, w.final_size))
                       /\ UNCHANGED <<outFile, tempCompressed>>
                       /\ ReturnTrue(j, w)

\* --------------------------------- process_concatenation, lines 217-233
\* lines 218-219
WCompleted(j) ==
    LET w == worker[j]
    IN  /\ w.pc = "L218"
        /\ WriteTop(j, "status", St("completed"),
                    [w EXCEPT !.pc = "L220", !.final_size = get_file_size_mb(outFile[j])])
        /\ http' = NoHttp
        /\ UNCHANGED <<Env, Cmd, Files>>

\* lines 220-222, one write each
WResult(j) ==
    LET w == worker[j]
    IN  /\ w.pc \in {"L220", "L221", "L222"}
        /\ CASE w.pc = "L220" -> WriteTop(j, "output_file", j, [w EXCEPT !.pc = "L221"])
             [] w.pc = "L221" -> WriteTop(j, "output_filename", OutputName,
                                          [w EXCEPT !.pc = "L222"])
             [] w.pc = "L222" -> WriteTop(j, "file_size", Round1(w.final_size),
                                          [w EXCEPT !.pc = "L229"])
        /\ http' = NoHttp
        /\ UNCHANGED <<Env, Cmd, Files>>

\* lines 225-226
WConcatFailed(j) ==
    LET w == worker[j]
    IN  /\ w.pc \in {"L225", "L226"}
        /\ IF w.pc = "L225"
           THEN WriteTop(j, "status", St("failed"), [w EXCEPT !.pc = "L226"])
           ELSE WriteTop(j, "error", Err("Failed to concatenate videos", NoUrl),
                         [w EXCEPT !.pc = "L229"])
        /\ http' = NoHttp
        /\ UNCHANGED <<Env, Cmd, Files>>

\* line 229
WCleanup(j) ==
    /\ worker[j].pc = "L229"
    /\ tmpDir' = [tmpDir EXCEPT ![j] = FALSE]
    /\ WGoto(j, "done")
    /\ http' = NoHttp
    /\ UNCHANGED <<jobs, Env, Cmd, outFile, manifest, tempCompressed>>

\* lines 231-233: the handler records the exception; its own writes raise KeyError
\* when the job is gone, and nothing catches that
WExcept(j) ==
    LET w == worker[j]
    IN  /\ w.pc \in {"L232", "L233"}
        /\ IF ~HasJob(j)
           THEN UNCHANGED jobs /\ WGoto(j, "crashed")
           ELSE IF w.pc = "L232"
           THEN /\ Put(j, "status", St("failed"))
                /\ WSet(j, Noted([w EXCEPT !.pc = "L233"], "status", St("failed")))
           ELSE Put(j, "error", Err("str(e)", NoUrl)) /\ WGoto(j, "done")
        /\ http' = NoHttp
        /\ UNCHANGED <<Env, Cmd, Files>>

Worker(j) ==
    \/ WStart(j) \/ WLoop(j) \/ WFetch(j) \/ WFailText(j)
    \/ WConcat(j) \/ WOriginalSize(j) \/ WNotCompressed(j) \/ WSizeCheck(j)
    \/ WCompress(j) \/ WKeepOriginal(j)
    \/ WCompleted(j) \/ WResult(j) \/ WConcatFailed(j) \/ WCleanup(j) \/ WExcept(j)

\* ------------------------------------------------------------ HTTP handlers
\* /api/concatenate, lines 328-383. A rejected request only answers; an accepted one
\* stores the record and starts process_concatenation, on a new thread or, with
\* sync, inline before it answers.
\* line 338, with the test the other way round (accepts only strictly inside)
SizeRejectedInclusive(max_size_mb) == max_size_mb <= MinSizeMb \/ max_size_mb >= MaxSizeMb

\* line 338
SizeRejected(max_size_mb) == max_size_mb < MinSizeMb \/ max_size_mb > MaxSizeMb

\* line 335, refusing only an empty list
TooFewUrlsEmptyOnly(urls) == Len(urls) < 1

\* line 335
TooFewUrls(urls) == Len(urls) < MinUrls

\* line 342 handing out an identifier a second time
NextJobIdReused(n) == n

\* line 342: uuid.uuid4() never gives the same identifier twice; identifiers are
\* numbered in the order they are handed out
NextJobId(n) == n + 1

\* the handler, for requests whose URL list and budget are drawn from lists and
\* sizes, while fewer than limit jobs were accepted
Concatenate(limit, lists, sizes) ==
    /\ entryPoint = "web_app"
    /\ \E urls \in lists, max_size_mb \in sizes, sync \in BOOLEAN :
        \* the answer echoes the request fields the handler had tested when it answered
        LET req == [NoBody EXCEPT !.urls = Len(urls), !.max_size_mb = max_size_mb]
        IN  IF TooFewUrls(urls)
            THEN /\ http' = Http("concatenate", 400, "At least 2 URLs required", 0,
                                 [NoBody EXCEPT !.urls = Len(urls)])
                 /\ UNCHANGED <<jobs, nextId, worker, Files, aged, Cmd, reaper>>
            ELSE IF SizeRejected(max_size_mb)
            THEN /\ http' = Http("concatenate", 400, "max_size_mb must be between 10 and 500",
                                 0, req)
                 /\ UNCHANGED <<jobs, nextId, worker, Files, aged, Cmd, reaper>>
            ELSE /\ nextId <= limit
                 /\ jobs' = [k \in DOMAIN jobs \cup {nextId} |->
                               IF k = nextId THEN NewRecord ELSE jobs[k]]
                 /\ worker' = [worker EXCEPT ![nextId] =
                                 [IdleWorker EXCEPT !.pc = "L176", !.urls = urls,
                                                    !.max_size_mb = max_size_mb,
                                                    !.mode = IF sync THEN "sync" ELSE "async",
                                                    !.starts = worker[nextId].starts + 1,
                                                    !.written = <<St("queued")>>]]
                 /\ nextId' = NextJobId(nextId)
                 /\ http' = IF sync THEN NoHttp
                            ELSE Http("concatenate", 200, "none", nextId,
                                      [req EXCEPT !.status = St("queued")])
                 /\ UNCHANGED <<Files, aged, Cmd, reaper>>

concatenate_api == Concatenate(MaxJobs, UrlLists, SizeChoices)

\* job.get(key, default)
GetOr(v, absent, default) == IF v = absent THEN default ELSE v

\* CompletedFields reading was_compressed and compression_ratio without a default
CompletedFieldsNoDefault(job, body) ==
    [body EXCEPT !.download_url = TRUE,
                 !.file_size = job.file_size,
                 !.original_size = job.original_size,
                 !.was_compressed = job.was_compressed,
                 !.compression_ratio = job.compression_ratio]

\* the fields lines 362-365 and 421-425 copy from a completed job's record
CompletedFields(job, body) ==
    [body EXCEPT !.download_url = TRUE,
                 !.file_size = job.file_size,
                 !.original_size = job.original_size,
                 !.was_compressed = GetOr(job.was_compressed, "absent", "False"),
                 !.compression_ratio = GetOr(job.compression_ratio, Absent, 0)]

\* lines 353-372 and 385-386: the answer of a sync request, once
\* process_concatenation returned or raised
SyncAnswer(j) ==
    LET w == worker[j]
    IN  /\ w.mode = "sync"
        /\ w.pc \in {"done", "crashed"}
        /\ WSet(j, [w EXCEPT !.mode = "answered"])
        /\ http' = IF w.pc = "crashed" \/ ~HasJob(j)
                   THEN Http("concatenate", 500, "KeyError", 0, NoBody)
                   ELSE IF jobs[j].status.name = "completed"
                   THEN Http("concatenate", 200, "none", j,
                             CompletedFields(jobs[j],
                                 [NoBody EXCEPT !.status = St("completed"),
                                                !.filename = OutputName]))
                   ELSE Http("concatenate", 500,
                             GetOr(jobs[j].error, NoError, Err("Unknown error", NoUrl)).msg,
                             j, [NoBody EXCEPT !.status = St("failed"),
                                               !.error = jobs[j].error])
        /\ UNCHANGED <<jobs, nextId, Files, aged, Cmd, reaper>>

\* lines 398-409: the status shown to the client
DisplayStatus(st) ==
    CASE st.name = "queued" -> St("Queued for processing")
      [] st.name = "downloading_videos" -> St("Downloading videos from URLs")
      [] st.name = "concatenating_videos" -> St("Concatenating videos together")
      [] st.name = "compressing_video" -> St("Compressing video to reduce file size")
      [] st.name = "completed" -> St("Processing completed successfully")
      [] st.name = "failed" -> St("Processing failed")
      [] st.name = "downloading_video" -> Status("Downloading videos", st.i, st.n)

\* /api/status/<job_id>, lines 389-427, reading the record in one go
get_status(j) ==
    IF ~HasJob(j) THEN Http("status", 404, "Job not found", j, NoBody)
    ELSE LET job == jobs[j]
             base == [NoBody EXCEPT !.status = DisplayStatus(job.status),
                                    !.error = job.error]
         IN  IF job.status.name = "completed"
             THEN Http("status", 200, "none", j,
                       CompletedFields(job,
                           [base EXCEPT !.filename = GetOr(job.output_filename, "absent",
                                                           OutputName)]))
             ELSE Http("status", 200, "none", j, base)

\* download_video_file without the os.path.exists test of line 439
download_video_fileNoExists(j) ==
    IF ~HasJob(j) THEN Http("download", 404, "Job not found", j, NoBody)
    ELSE LET job == jobs[j]
         IN  IF job.status.name # "completed"
             THEN Http("download", 400, "Job not completed", j, NoBody)
             ELSE IF job.output_file = Absent
             THEN Http("download", 404, "Output file not found", j, NoBody)
             ELSE Http("download", 200, "none", j,
                       [NoBody EXCEPT !.sent = outFile[job.output_file],
                                      !.filename = GetOr(job.output_filename, "absent",
                                                         OutputName)])

\* download_video_file without the status test of lines 436-437
download_video_fileAnyStatus(j) ==
    IF ~HasJob(j) THEN Http("download", 404, "Job not found", j, NoBody)
    ELSE LET job == jobs[j]
         IN  IF job.output_file = Absent \/ outFile[job.output_file] = Absent
             THEN Http("download", 404, "Output file not found", j, NoBody)
             ELSE Http("download", 200, "none", j,
                       [NoBody EXCEPT !.sent = outFile[job.output_file],
                                      !.filename = GetOr(job.output_filename, "absent",
                                                         OutputName)])

\* /api/download/<job_id>, lines 430-443
download_video_file(j) ==
    IF ~HasJob(j) THEN Http("download", 404, "Job not found", j, NoBody)
    ELSE LET job == jobs[j]
         IN  IF job.status.name # "completed"
             THEN Http("download", 400, "Job not completed", j, NoBody)
             ELSE IF job.output_file = Absent \/ outFile[job.output_file] = Absent
             THEN Http("download", 404, "Output file not found", j, NoBody)
             ELSE Http("download", 200, "none", j,
                       [NoBody EXCEPT !.sent = outFile[job.output_file],
                                      !.filename = GetOr(job.output_filename, "absent",
                                                         OutputName)])

\* a client asks for the status of, or downloads, an id that was or was not handed out
StatusRequest(j) ==
    /\ entryPoint = "web_app"
    /\ http' = get_status(j)
    /\ UNCHANGED <<jobs, nextId, worker, Files, aged, Cmd, reaper>>

DownloadRequest(j) ==
    /\ entryPoint = "web_app"
    /\ http' = download_video_file(j)
    /\ UNCHANGED <<jobs, nextId, worker, Files, aged, Cmd, reaper>>

\* ------------------------------------------------------------------ reaper
\* time passes: the oldest job not yet past the retention window gets past it
Tick ==
    /\ entryPoint = "web_app"
    /\ aged < nextId - 1
    /\ aged' = aged + 1
    /\ http' = NoHttp
    /\ UNCHANGED <<jobs, nextId, worker, Files, reaper, Cmd>>

\* cleanup_loop wakes, cleanup_old_jobs reads the clock and starts iterating jobs
ReaperWake ==
    /\ entryPoint = "web_app"
    /\ reaper.pc = "sleep"
    /\ reaper' = [pc |-> "iter", now |-> aged, len |-> Cardinality(DOMAIN jobs),
                  pos |-> 0, to_remove |-> <<>>]
    /\ http' = NoHttp
    /\ UNCHANGED <<jobs, nextId, worker, Files, aged, Cmd>>

\* one step of for job_id, job in jobs.items() (lines 486-491): the dict iterator
\* raises RuntimeError when the dict changed size, which ends the cleanup thread
ReaperVisit ==
    LET rest == {k \in DOMAIN jobs : k > reaper.pos}
        k == CHOOSE x \in rest : \A y \in rest : x <= y
    IN  /\ reaper.pc = "iter"
        /\ http' = NoHttp
        /\ IF Cardinality(DOMAIN jobs) # reaper.len
           THEN reaper' = [reaper EXCEPT !.pc = "dead"] /\ UNCHANGED outFile
           ELSE IF rest = {}
           THEN reaper' = [reaper EXCEPT !.pc = "del"] /\ UNCHANGED outFile
           ELSE IF k <= reaper.now
           THEN /\ reaper' = [reaper EXCEPT !.pos = k, !.to_remove = Append(@, k)]
                /\ outFile' = IF jobs[k].output_file # Absent
                              THEN [outFile EXCEPT ![jobs[k].output_file] = Absent]
                              ELSE outFile
           ELSE reaper' = [reaper EXCEPT !.pos = k] /\ UNCHANGED outFile
        /\ UNCHANGED <<jobs, nextId, worker, tmpDir, manifest, tempCompressed, aged, Cmd>>

\* lines 493-494, one del per step; then back to sleep
ReaperDelete ==
    /\ reaper.pc = "del"
    /\ http' = NoHttp
    /\ IF reaper.to_remove = <<>>
       THEN reaper' = SleepingReaper /\ UNCHANGED jobs
       ELSE /\ jobs' = [k \in DOMAIN jobs \ {Head(reaper.to_remove)} |-> jobs[k]]
            /\ reaper' = [reaper EXCEPT !.to_remove = Tail(@)]
    /\ UNCHANGED <<nextId, worker, Files, aged, Cmd>>

\* ------------------------------------------------ compress_video, the ladder
\* len(compression_attempts), lines 85-90
LadderLen == 4
\* the default of the parameter max_attempts, line 55
DefaultMaxAttempts == 4
\* params['crf'] of the entries of compression_attempts, lines 86-89
Crf == <<23, 25, 27, 30>>

\* size_factor of line 101, increasing with the attempt number
size_factorGrowing(attempt) == 100 + 5 * attempt

\* size_factor of line 101, in hundredths: 1.0 - attempt * 0.05
size_factor(attempt) == 100 - 5 * attempt

\* floor((q + r / c) * 2^k) for 0 <= r < c, doubling k times so that no
\* intermediate value leaves the 32-bit integers
RECURSIVE Doubled(_, _, _, _)
Doubled(q, r, c, k) ==
    IF k = 0 THEN q
    ELSE Doubled(2 * q + (2 * r) \div c, (2 * r) % c, c, k - 1)

\* target_bitrate of lines 99-103, in bit/s, for a duration in whole seconds:
\* int(target_size_mb * 8 * 1024 * 1024 * size_factor / duration * 0.85), that is
\* floor(target_size_mb * size_factor * 85 * 2^23 / (10^4 * duration)), and
\* 2^23 / 10^4 = 2^19 / 625
target_bitrate(target_size_mb, attempt, duration) ==
    LET n == target_size_mb * size_factor(attempt) * 85
        c == 625 * duration
    IN  Doubled(n \div c, n % c, c, 19)

\* the numbers ffprobe prints as the duration, in seconds: 0, one minute, ten hours
Durations == {0, 60, 36000}

\* what the ffprobe run of get_video_duration gives: its exit code and its stdout,
\* which is empty, a text that is not a number ("N/A"), or a number
NoProbe == [rc |-> Absent, out |-> "none", val |-> 0]
ProbeRun(rc, out, val) == [rc |-> rc, out |-> out, val |-> val]
DurationOutputs ==
    {ProbeRun(1, "empty", 0), ProbeRun(0, "empty", 0), ProbeRun(0, "text", 0)}
      \cup {ProbeRun(0, "number", d) : d \in Durations}

\* get_video_duration falling back to one minute when the probe gives no number
get_video_durationDefault(run) ==
    IF run.rc # 0 \/ run.out \in {"empty", "text"} THEN 60 ELSE run.val

\* get_video_duration, lines 234-248: None (Absent here) on CalledProcessError, on
\* an empty stdout and on ValueError, else the number printed
get_video_duration(run) ==
    IF run.rc # 0 THEN Absent
    ELSE IF run.out = "empty" THEN Absent
    ELSE IF run.out = "text" THEN Absent
    ELSE run.val
\* values a direct caller passes as max_attempts
MaxAttemptChoices == {1, 4, 6}
\* target sizes (MB) the command line and direct callers ask for
TargetChoices == {10, 20}
\* sizes (cMB) ffmpeg gives an attempt that encoded, around both targets
AttemptSizes == {1000, 1001, 2000, 2001}
\* what an ffmpeg that failed or was killed leaves at temp_output
PartialSizes == {Absent, 500}

Outcome(kind, size) == [kind |-> kind, size |-> size]
\* subprocess.run of one attempt: exit 0 with an output, exit 0 without one, a
\* nonzero exit, TimeoutExpired after 300 s, or another exception (an OSError of
\* subprocess.run) caught at line 168
AttemptOutcomes ==
    {Outcome("ok", size) : size \in AttemptSizes}
      \cup {Outcome("missing", Absent)}
      \cup {Outcome("nonzero", size) : size \in PartialSizes}
      \cup {Outcome("timeout", size) : size \in PartialSizes}
      \cup {Outcome("raised", Absent)}

\* input: size of the file at input_path; temp_output: size of the file at the
\* current temp_output, Absent when there is none; left_behind: attempt files at
\* earlier temp_output paths that still exist; outs: the outcomes of the attempts run
\* given: the file at input_path when the call was made; probed: get_video_duration
\* was called; params: crf, size factor and bitrate of the attempts run
IdleCompress ==
    [pc |-> "idle", target_size_mb |-> NumArg(0), input |-> Absent, original |-> Absent,
     attempt |-> 0, temp_output |-> Absent, left_behind |-> 0, ret |-> "none",
     outs |-> <<>>,
     max_attempts |-> 0, duration |-> 0, given |-> Absent, probed |-> FALSE,
     params |-> <<>>,
     \* the ffprobe run of line 77, NoProbe when the line was not reached
     probe |-> NoProbe]

\* a caller of compress_video alone: the size of its file, and its second argument,
\* a number of MB or, in debug_compression.py line 40, the path of an output file
DirectSizes == {900, 1804}
DirectTargets == {NumArg(t) : t \in TargetChoices} \cup {PathArg}

CallCompressWith(input, target_size_mb, max_attempts) ==
    [IdleCompress EXCEPT !.pc = "L63", !.input = input, !.given = input,
                         !.target_size_mb = target_size_mb, !.max_attempts = max_attempts]

\* a call that leaves max_attempts to its default
CallCompress(input, target_size_mb) ==
    CallCompressWith(input, target_size_mb, DefaultMaxAttempts)

\* line 77 is reached: the engine is there and the file is over the target
ReachesProbe(avail, original, target) ==
    avail /\ target.kind = "num" /\ original > 100 * target.val

\* lines 60-92: up to the ladder
CEntry ==
    /\ comp.pc = "L63"
    /\ \E avail \in BOOLEAN, run \in DurationOutputs :
         LET duration == get_video_duration(run)
             e == compress_video_entry(avail, comp.input, comp.target_size_mb, duration)
             reached == ReachesProbe(avail, comp.input, comp.target_size_mb)
             c == [comp EXCEPT !.original = IF avail THEN comp.input ELSE Absent,
                               !.probed = reached,
                               !.probe = IF reached THEN run ELSE NoProbe]
         IN  comp' = IF e = "ladder"
                     THEN [c EXCEPT !.pc = "L95", !.attempt = 1, !.duration = duration]
                     ELSE [c EXCEPT !.pc = "ret", !.ret = e]
    /\ UNCHANGED <<jobs, Env, Files, worker, http, entryPoint, cli>>

\* lines 95-124: what attempt number comp.attempt hands to ffmpeg
AttemptParams(c) ==
    [crf |-> Crf[c.attempt], factor |-> size_factor(c.attempt),
     bitrate |-> target_bitrate(c.target_size_mb.val, c.attempt, c.duration)]

\* CAttempt that promotes only an output strictly under the target
CAttemptStrict ==
    /\ comp.pc = "L95"
    /\ comp.attempt <= LadderLen
    /\ \E o \in AttemptOutcomes :
         LET c == [comp EXCEPT !.outs = Append(@, o),
                               !.params = Append(@, AttemptParams(comp)),
                               !.left_behind = IF comp.temp_output # Absent
                                               THEN @ + 1 ELSE @]
         IN  comp' =
               IF o.kind \in {"nonzero", "timeout", "raised"}
               THEN [c EXCEPT !.temp_output = o.size, !.attempt = @ + 1]
               ELSE IF o.kind = "missing"
               THEN [c EXCEPT !.temp_output = Absent, !.attempt = @ + 1]
               ELSE IF o.size < 100 * comp.target_size_mb.val
               THEN [c EXCEPT !.input = o.size, !.temp_output = Absent,
                              !.ret = "True", !.pc = "L176"]
               ELSE [c EXCEPT !.temp_output = Absent, !.attempt = @ + 1]
    /\ UNCHANGED <<jobs, Env, Files, worker, http, entryPoint, cli>>

\* CAttempt in which TimeoutExpired is not caught and leaves compress_video
CAttemptTimeoutFatal ==
    /\ comp.pc = "L95"
    /\ comp.attempt <= LadderLen
    /\ \E o \in AttemptOutcomes :
         LET c == [comp EXCEPT !.outs = Append(@, o),
                               !.params = Append(@, AttemptParams(comp)),
                               !.left_behind = IF comp.temp_output # Absent
                                               THEN @ + 1 ELSE @]
         IN  comp' =
               IF o.kind = "timeout"
               THEN [c EXCEPT !.temp_output = o.size, !.ret = "TimeoutExpired",
                              !.pc = "L176"]
               ELSE IF o.kind \in {"nonzero", "raised"}
               THEN [c EXCEPT !.temp_output = o.size, !.attempt = @ + 1]
               ELSE IF o.kind = "missing"
               THEN [c EXCEPT !.temp_output = Absent, !.attempt = @ + 1]
               ELSE IF o.size <= 100 * comp.target_size_mb.val
               THEN [c EXCEPT !.input = o.size, !.temp_output = Absent,
                              !.ret = "True", !.pc = "L176"]
               ELSE [c EXCEPT !.temp_output = Absent, !.attempt = @ + 1]
    /\ UNCHANGED <<jobs, Env, Files, worker, http, entryPoint, cli>>

\* lines 95-170, one turn of the loop: mktemp rebinds temp_output (line 108), ffmpeg
\* runs; a nonzero exit or a timeout goes on to the next attempt and leaves what is
\* at temp_output; an output at most the target is moved to input_path and the call
\* returns True; a larger one is unlinked
CAttempt ==
    /\ comp.pc = "L95"
    /\ comp.attempt <= LadderLen
    /\ \E o \in AttemptOutcomes :
         LET c == [comp EXCEPT !.outs = Append(@, o),
                               !.params = Append(@, AttemptParams(comp)),
                               !.left_behind = IF comp.temp_output # Absent
                                               THEN @ + 1 ELSE @]
         IN  comp' =
               IF o.kind \in {"nonzero", "timeout", "raised"}
               THEN [c EXCEPT !.temp_output = o.size, !.attempt = @ + 1]
               ELSE IF o.kind = "missing"
               THEN [c EXCEPT !.temp_output = Absent, !.attempt = @ + 1]
               ELSE IF o.size <= 100 * comp.target_size_mb.val
               THEN [c EXCEPT !.input = o.size, !.temp_output = Absent,
                              !.ret = "True", !.pc = "L176"]
               ELSE [c EXCEPT !.temp_output = Absent, !.attempt = @ + 1]
    /\ UNCHANGED <<jobs, Env, Files, worker, http, entryPoint, cli>>

\* CGiveUp that reports a best-effort success
CGiveUpBestEffort ==
    /\ comp.pc = "L95"
    /\ comp.attempt > LadderLen
    /\ comp' = [comp EXCEPT !.ret = "True", !.pc = "L176"]
    /\ UNCHANGED <<jobs, Env, Files, worker, http, entryPoint, cli>>

\* lines 172-174: the ladder is exhausted
CGiveUp ==
    /\ comp.pc = "L95"
    /\ comp.attempt > LadderLen
    /\ comp' = [comp EXCEPT !.ret = "False", !.pc = "L176"]
    /\ UNCHANGED <<jobs, Env, Files, worker, http, entryPoint, cli>>

\* CFinally unlinking the file at input_path along with the last temp_output
CFinallyUnlinksInput ==
    /\ comp.pc = "L176"
    /\ comp' = [comp EXCEPT !.temp_output = Absent, !.input = Absent, !.pc = "ret"]
    /\ UNCHANGED <<jobs, Env, Files, worker, http, entryPoint, cli>>

\* lines 176-182: finally unlinks what is at the last temp_output
CFinally ==
    /\ comp.pc = "L176"
    /\ comp' = [comp EXCEPT !.temp_output = Absent, !.pc = "ret"]
    /\ UNCHANGED <<jobs, Env, Files, worker, http, entryPoint, cli>>

compress_video == CEntry \/ CAttempt \/ CGiveUp \/ CFinally

\* ------------------------------------- process_videos_from_urls (command line)
NoResult == [success |-> "none", msg |-> "none", url |-> NoUrl, size |-> Absent]
Result(success, msg, url, size) == [success |-> success, msg |-> msg, url |-> url, size |-> size]

\* output: size of the file at output_path; temp_dir: the download directory exists;
\* ret: the returned pair, "raised" when an exception left the function instead
IdleCli ==
    [pc |-> "idle", urls |-> <<>>, max_size_mb |-> 0, keep_temp |-> FALSE, i |-> 0,
     downloaded |-> <<>>, temp_dir |-> FALSE, output |-> Absent, file_size |-> Absent,
     ret |-> NoResult,
     \* observations, as for the web worker
     \* and made, the size of the file that concatenate_videos or the copy produced
     dlFailed |-> 0, probeFailed |-> 0, fetched |-> 0, probed |-> 0, concats |-> 0,
     made |-> Absent, returncode |-> Absent, held |-> NoFiles,
     \* the list file of concatenate_videos (line 188) exists
     concat_file |-> FALSE]

CallProcess(urls, max_size_mb, keep_temp) ==
    [IdleCli EXCEPT !.pc = "L255", !.urls = urls, !.max_size_mb = max_size_mb,
                    !.keep_temp = keep_temp]

CliFrame == <<jobs, Env, Files, worker, http, entryPoint>>

\* lines 255-260
PStart ==
    /\ cli.pc = "L255"
    /\ \E ffmpeg \in BOOLEAN :
         cli' = IF ffmpeg
                THEN [cli EXCEPT !.pc = "L264", !.temp_dir = TRUE]
                ELSE [cli EXCEPT !.pc = "done",
                                 !.ret = Result("False", "ffmpeg n'est pas installe ou accessible",
                                                NoUrl, Absent)]
    /\ UNCHANGED <<CliFrame, comp>>

\* PFetch that keeps a file the probe rejected
PFetchUnprobed ==
    LET url == cli.urls[cli.i + 1]
    IN  /\ cli.pc = "L264"
        /\ cli.i < Len(cli.urls)
        /\ \E downloaded \in BOOLEAN, probe \in ProbeOutcomes :
             LET temp_path == TempPath(url, cli.i + 1)
                 seen == [cli EXCEPT !.fetched = @ + 1,
                                     !.held = IF downloaded THEN [@ EXCEPT ![temp_path] = url]
                                              ELSE @,
                                     !.probed = IF downloaded THEN @ + 1 ELSE @,
                                     !.dlFailed = IF ~downloaded /\ @ = 0
                                                  THEN cli.i + 1 ELSE @,
                                     !.probeFailed = IF downloaded /\ probe = "rejected" /\ @ = 0
                                                     THEN cli.i + 1 ELSE @]
             IN  cli' =
                   IF ~downloaded
                   THEN [seen EXCEPT !.pc = "L322",
                                     !.ret = Result("False", "Impossible de telecharger",
                                                    url, Absent)]
                   ELSE IF probe = "raised"
                   THEN [seen EXCEPT !.pc = "L322",
                                     !.ret = Result("raised", "FileNotFoundError", NoUrl, Absent)]
                   ELSE IF probe = "hangs"
                   THEN [seen EXCEPT !.pc = "blocked"]
                   ELSE [seen EXCEPT !.i = @ + 1, !.downloaded = Append(@, temp_path)]
        /\ UNCHANGED <<CliFrame, comp>>

\* lines 264-282, one turn of the loop
PFetch ==
    LET url == cli.urls[cli.i + 1]
    IN  /\ cli.pc = "L264"
        /\ cli.i < Len(cli.urls)
        /\ \E downloaded \in BOOLEAN, probe \in ProbeOutcomes :
             LET temp_path == TempPath(url, cli.i + 1)
                 seen == [cli EXCEPT !.fetched = @ + 1,
                                     !.held = IF downloaded THEN [@ EXCEPT ![temp_path] = url]
                                              ELSE @,
                                     !.probed = IF downloaded THEN @ + 1 ELSE @,
                                     !.dlFailed = IF ~downloaded /\ @ = 0
                                                  THEN cli.i + 1 ELSE @,
                                     !.probeFailed = IF downloaded /\ probe = "rejected" /\ @ = 0
                                                     THEN cli.i + 1 ELSE @]
             IN  cli' =
                   IF ~downloaded
                   THEN [seen EXCEPT !.pc = "L322",
                                     !.ret = Result("False", "Impossible de telecharger",
                                                    url, Absent)]
                   ELSE IF probe = "raised"
                   THEN [seen EXCEPT !.pc = "L322",
                                     !.ret = Result("raised", "FileNotFoundError", NoUrl, Absent)]
                   ELSE IF probe = "hangs"
                   THEN [seen EXCEPT !.pc = "blocked"]
                   ELSE IF probe = "rejected"
                   THEN [seen EXCEPT !.pc = "L322",
                                     !.ret = Result("False",
                                                    "ne semble pas etre une video valide",
                                                    url, Absent)]
                   ELSE [seen EXCEPT !.i = @ + 1, !.downloaded = Append(@, temp_path)]
        /\ UNCHANGED <<CliFrame, comp>>

\* line 320 after the size checks of lines 294 and 314: compress when over the
\* budget, else return
Produced(c, size) ==
    LET made == [c EXCEPT !.output = size, !.file_size = size, !.made = size]
    IN  IF size > 100 * c.max_size_mb
        THEN /\ cli' = [made EXCEPT !.pc = "L297"]
             /\ comp' = CallCompress(size, NumArg(c.max_size_mb))
        ELSE /\ cli' = [made EXCEPT !.pc = "L322",
                                    !.ret = Result("True", "Video creee avec succes",
                                                   NoUrl, Round1(size))]
             /\ UNCHANGED comp

\* lines 284-318 after the loop: nothing downloaded, concatenate_videos on two or
\* more files, or the copy of a single one
PConcat ==
    /\ cli.pc = "L264"
    /\ cli.i = Len(cli.urls)
    /\ IF cli.downloaded = <<>>
       THEN /\ cli' = [cli EXCEPT !.pc = "L322",
                                  !.ret = Result("False", "Aucune video n'a pu etre telechargee",
                                                 NoUrl, Absent)]
            /\ UNCHANGED comp
       ELSE IF Len(cli.downloaded) > 1
       THEN \/ \E size \in ConcatSizes :
                 Produced([cli EXCEPT !.concats = @ + 1, !.returncode = 0,
                                      !.concat_file = FALSE], size)
            \/ \E partial \in {Absent, 1804} :
                 /\ cli' = [cli EXCEPT !.concats = @ + 1, !.returncode = 1,
                                       !.concat_file = FALSE,
                                       !.output = partial, !.pc = "L322",
                                       !.ret = Result("None", "[]", NoUrl, Absent)]
                 /\ UNCHANGED comp
            \/ \E partial \in {Absent, 1804} :   \* line 201 has no timeout
                 /\ cli' = [cli EXCEPT !.concats = @ + 1, !.output = partial,
                                       !.concat_file = TRUE, !.pc = "blocked"]
                 /\ UNCHANGED comp
       ELSE \E size \in ConcatSizes : Produced(cli, size)
    /\ UNCHANGED CliFrame

\* PCompressed whose single-source branch keeps the size measured before compression
PCompressedStaleSingle ==
    /\ cli.pc = "L297"
    /\ comp.pc = "ret"
    /\ LET file_size == IF comp.ret = "True" /\ Len(cli.downloaded) > 1
                        THEN get_file_size_mb(comp.input)
                        ELSE cli.file_size
       IN  cli' = [cli EXCEPT !.output = comp.input, !.file_size = file_size, !.pc = "L322",
                              !.ret = Result("True", "Video creee avec succes", NoUrl,
                                             Round1(file_size))]
    /\ UNCHANGED <<CliFrame, comp>>

\* lines 297-301 and 316-318: compress_video has returned
PCompressed ==
    /\ cli.pc = "L297"
    /\ comp.pc = "ret"
    /\ LET file_size == IF comp.ret = "True" THEN get_file_size_mb(comp.input)
                        ELSE cli.file_size
       IN  cli' = [cli EXCEPT !.output = comp.input, !.file_size = file_size, !.pc = "L322",
                              !.ret = Result("True", "Video creee avec succes", NoUrl,
                                             Round1(file_size))]
    /\ UNCHANGED <<CliFrame, comp>>

\* lines 322-326
PFinally ==
    /\ cli.pc = "L322"
    /\ cli' = [cli EXCEPT !.pc = "done", !.temp_dir = IF cli.keep_temp THEN @ ELSE FALSE]
    /\ UNCHANGED <<CliFrame, comp>>

process_videos_from_urls == PStart \/ PFetch \/ PConcat \/ PCompressed \/ PFinally

\* ------------------------------------------------------------ specification
Init ==
    /\ jobs = <<>>
    /\ nextId = 1
    /\ worker = [j \in JobIds |-> IdleWorker]
    /\ outFile = [j \in JobIds |-> Absent]
    /\ tmpDir = [j \in JobIds |-> FALSE]
    /\ manifest = [j \in JobIds |-> FALSE]
    /\ tempCompressed = [j \in JobIds |-> Absent]
    /\ aged = 0
    /\ reaper = SleepingReaper
    /\ http = NoHttp
    /\ \/ /\ entryPoint = "web_app"
          /\ comp = IdleCompress
          /\ cli = IdleCli
       \/ /\ entryPoint = "concat_videos"
          /\ comp = IdleCompress
          /\ \E urls \in UrlLists, max_size_mb \in TargetChoices, keep_temp \in BOOLEAN :
               cli = CallProcess(urls, max_size_mb, keep_temp)
       \/ /\ entryPoint = "compress_video"
          /\ cli = IdleCli
          /\ \E input \in DirectSizes, target_size_mb \in DirectTargets,
                max_attempts \in MaxAttemptChoices :
               comp = CallCompressWith(input, target_size_mb, max_attempts)

Next ==
    \/ concatenate_api
    \/ \E j \in JobIds : Worker(j)
    \/ \E j \in JobIds : SyncAnswer(j)
    \/ \E j \in 1..(MaxJobs + 1) : StatusRequest(j)
    \/ \E j \in 1..(MaxJobs + 1) : DownloadRequest(j)
    \/ Tick
    \/ ReaperWake
    \/ ReaperVisit
    \/ ReaperDelete
    \/ process_videos_from_urls
    \/ compress_video

Spec == Init /\ [][Next]_vars

\* Two jobs side by side: both submitted with two valid-looking URLs and a 10 MB
\* budget, their workers and the status and download handlers interleaved at will
\* (the reaper is left out).
PairJobs == 2
PairIds == 1..PairJobs
PairUrlLists == {UrlList(MinUrls)}
PairSizes == {MinSizeMb}

concatenate_apiPair == Concatenate(PairJobs, PairUrlLists, PairSizes)

InitPair ==
    /\ jobs = <<>>
    /\ nextId = 1
    /\ worker = [j \in PairIds |-> IdleWorker]
    /\ outFile = [j \in PairIds |-> Absent]
    /\ tmpDir = [j \in PairIds |-> FALSE]
    /\ manifest = [j \in PairIds |-> FALSE]
    /\ tempCompressed = [j \in PairIds |-> Absent]
    /\ aged = 0
    /\ reaper = SleepingReaper
    /\ http = NoHttp
    /\ entryPoint = "web_app"
    /\ comp = IdleCompress
    /\ cli = IdleCli

NextPair ==
    \/ concatenate_apiPair
    \/ \E j \in PairIds : Worker(j)
    \/ \E j \in PairIds : SyncAnswer(j)
    \/ \E j \in PairIds : StatusRequest(j)
    \/ \E j \in PairIds : DownloadRequest(j)

PairSpec == InitPair /\ [][NextPair]_vars

\* A worker runs on its own thread (line 375) or inline in the request's thread
\* (line 357): the scheduler gives it a turn whenever it can take a step.
FairSpec == Init /\ [][Next]_vars /\ \A j \in JobIds : WF_vars(Worker(j))

\* ================================================================== claims
Done(j) == worker[j].pc \in {"done", "crashed"}
Oversized(j) ==
    /\ worker[j].original_size # Absent
    /\ worker[j].original_size > 100 * worker[j].max_size_mb
Terminal(st) == st.name \in {"completed", "failed"}

\* C1: when concatenation succeeded and the output is larger than max_size_mb, the
\* finished job is completed, with the pre-compression file at output_path and
\* was_compressed false, whatever the compression call did.
C1_CompressionNeverFailsJob ==
    \A j \in DOMAIN jobs :
        (Done(j) /\ Oversized(j) /\ worker[j].offer.asked)
            => /\ jobs[j].status.name = "completed"
               /\ jobs[j].was_compressed = "False"
               /\ outFile[j] = worker[j].original_size

\* C2: once a job's status is completed or failed, no step changes any field of its
\* record.
C2_TerminalRecordFrozen ==
    [][\A j \in DOMAIN jobs \cap DOMAIN jobs' :
          Terminal(jobs[j].status) => jobs'[j] = jobs[j]]_vars

\* C4: a status answer that says completed carries file_size, and a download of a
\* job whose status is completed never answers 'Output file not found', at whatever
\* point of the worker's run the request is served.
C4_CompletedRecordWhole ==
    /\ (http.op = "status" /\ http.body.download_url) => http.body.file_size # Absent
    /\ \A j \in DOMAIN jobs :
          (jobs[j].status.name = "completed" /\ ~Done(j))
              => download_video_file(j).err # "Output file not found"

\* C7: a job whose concatenated output exceeds max_size_mb, and for which the
\* encoder can produce a file of at most max_size_mb, ends completed with
\* was_compressed true, file_size <= max_size_mb and original_size the
\* pre-compression size.
C7_CompressedJobCompletes ==
    \A j \in DOMAIN jobs :
        (/\ Done(j) /\ Oversized(j)
         /\ worker[j].offer.asked /\ worker[j].offer.avail
         /\ worker[j].offer.duration > 0
         /\ worker[j].offer.promoted \in 1..(100 * worker[j].max_size_mb))
            => /\ jobs[j].status.name = "completed"
               /\ jobs[j].was_compressed = "True"
               /\ jobs[j].file_size <= 10 * worker[j].max_size_mb
               /\ jobs[j].original_size = Round1(worker[j].original_size)

\* C3: the status of a job only moves forward along queued, downloading (i of n),
\* concatenating, compressing, completed | failed: a terminal status is never left,
\* the download index only grows and stays within 1..n, and compressing is entered
\* from concatenating only.
Rank(st) ==
    CASE st.name = "queued" -> 0
      [] st.name = "downloading_videos" -> 1
      [] st.name = "downloading_video" -> 2
      [] st.name = "concatenating_videos" -> 3
      [] st.name = "compressing_video" -> 4
      [] st.name = "completed" -> 5
      [] st.name = "failed" -> 5

C3_StatusMovesForward ==
    [][\A j \in DOMAIN jobs \cap DOMAIN jobs' :
          LET s == jobs[j].status
              t == jobs'[j].status
          IN  s # t =>
                /\ ~Terminal(s)
                /\ \/ Rank(s) < Rank(t)
                   \/ s.name = "downloading_video" /\ t.name = s.name /\ s.i < t.i
                /\ t.name = "downloading_video" =>
                     t.i \in 1..t.n /\ t.n = Len(worker[j].urls)
                /\ t.name = "compressing_video" => s.name = "concatenating_videos"]_vars

\* C3 witness: a job that went through downloading 2 of 2, concatenating and
\* compressing and is completed
C3_Witness ==
    \E j \in DOMAIN jobs :
        /\ jobs[j].status.name = "completed"
        /\ jobs[j].compression_ratio = 0
        /\ worker[j].fetched = 2

\* C8: when download_video fails for the i-th URL, no later URL is fetched or probed,
\* the concat step is never started, the download endpoint never serves the job, and
\* the finished job is failed with an error text holding exactly that URL.
C8_DownloadFailureAborts ==
    \A j \in JobIds :
        LET w == worker[j]
        IN  w.dlFailed > 0 =>
              /\ w.fetched = w.dlFailed /\ w.probed = w.dlFailed - 1
              /\ w.concats = 0 /\ outFile[j] = Absent /\ ~manifest[j]
              /\ download_video_file(j).code # 200
              /\ (HasJob(j) /\ Done(j)) =>
                    /\ jobs[j].status.name = "failed"
                    /\ jobs[j].error = Err("Failed to download", w.urls[w.dlFailed])

\* C8 witness: the first of two URLs failed and the job finished
C8_Witness ==
    \E j \in DOMAIN jobs :
        worker[j].dlFailed = 1 /\ Len(worker[j].urls) = 2 /\ worker[j].pc = "done"

\* C10: a submission with max_size_mb below 10 or above 500 is answered 400 and
\* changes neither the registry nor any worker; one with 10 <= max_size_mb <= 500
\* is not answered 400.
C10_SizeBudgetValidated ==
    [][(http'.op = "concatenate" /\ http'.body.max_size_mb # Absent) =>
          LET m == http'.body.max_size_mb
          IN  /\ (m < 10 \/ m > 500) =>
                   /\ http'.code = 400
                   /\ jobs' = jobs /\ worker' = worker /\ nextId' = nextId
              /\ (m >= 10 /\ m <= 500) =>
                   /\ http'.code = 200
                   /\ http'.job \in DOMAIN jobs' \ DOMAIN jobs
                   /\ worker'[http'.job].max_size_mb = m]_vars

\* C10 witness: a budget of 501 was rejected while a job was in the registry
C10_Witness ==
    /\ http.op = "concatenate" /\ http.code = 400 /\ http.body.max_size_mb = 501
    /\ jobs # <<>>

\* The ladder of compress_video ran on an oversized input and the call has returned.
Budget(c) == 100 * c.target_size_mb.val
LadderReturned(c) ==
    /\ c.pc = "ret"
    /\ c.target_size_mb.kind = "num"
    /\ c.original # Absent
    /\ c.original > Budget(c)
MetTarget(c) ==
    {k \in 1..Len(c.outs) : c.outs[k].kind = "ok" /\ c.outs[k].size <= Budget(c)}
AllEncodedOver(c) ==
    /\ Len(c.outs) = LadderLen
    /\ \A k \in 1..Len(c.outs) : c.outs[k].kind = "ok" /\ c.outs[k].size > Budget(c)
SmallestOutput(c) ==
    CHOOSE size \in {c.outs[k].size : k \in 1..Len(c.outs)} :
        \A k \in 1..Len(c.outs) : size <= c.outs[k].size

\* C5: for every target B, oversized input and sequence of attempt outcomes: when
\* compress_video returns True the file at input_path is at most B, and when an
\* attempt that ran produced an output at most B, compress_video returns True with
\* that output at input_path.
C5_TrueMeansWithinTarget ==
    LadderReturned(comp) =>
        /\ comp.ret = "True" => comp.input <= Budget(comp)
        /\ MetTarget(comp) # {} =>
              /\ comp.ret = "True"
              /\ MetTarget(comp) = {Len(comp.outs)}
              /\ comp.input = comp.outs[Len(comp.outs)].size

\* C5 witness: a timeout, an output over the target, then an output of exactly the
\* target, which was promoted
C5_Witness ==
    /\ LadderReturned(comp)
    /\ Len(comp.outs) = 3
    /\ comp.outs[1].kind = "timeout"
    /\ comp.outs[2] = Outcome("ok", 1001)
    /\ comp.outs[3] = Outcome("ok", 1000)
    /\ comp.input = 1000

C9_InvalidVideoAborts ==
    /\ \A j \in JobIds :
         LET w == worker[j]
         IN  w.probeFailed > 0 =>
               /\ w.concats = 0 /\ outFile[j] = Absent
               /\ (HasJob(j) /\ Done(j)) =>
                     /\ jobs[j].status.name = "failed"
                     /\ jobs[j].error = Err("Invalid video file", w.urls[w.probeFailed])
    /\ cli.probeFailed > 0 =>
         /\ cli.concats = 0 /\ cli.output = Absent
         /\ cli.pc \in {"L322", "done"}
         /\ cli.ret = Result("False", "ne semble pas etre une video valide",
                             cli.urls[cli.probeFailed], Absent)

\* C9 witness: the second of two sources was rejected by the probe and the job
\* finished
C9_Witness ==
    \E j \in DOMAIN jobs :
        /\ worker[j].probeFailed = 2 /\ worker[j].probed = 2
        /\ worker[j].pc = "done"

C12_SingleSourceSamePath ==
    (cli.pc = "done" /\ cli.made # Absent) =>
        LET called == comp.pc # "idle"
            final == IF called /\ comp.ret = "True" THEN comp.input ELSE cli.made
        IN  /\ called <=> cli.made > 100 * cli.max_size_mb
            /\ cli.concats = IF Len(cli.downloaded) = 1 THEN 0 ELSE 1
            /\ cli.output = final
            /\ cli.ret = Result("True", "Video creee avec succes", NoUrl, Round1(final))

\* C12 witness: a single source of 18.04 MB over a 10 MB budget was copied and
\* compressed to 10 MB
C12_Witness ==
    /\ cli.pc = "done" /\ Len(cli.urls) = 1 /\ cli.concats = 0
    /\ cli.made = 1804 /\ cli.max_size_mb = 10
    /\ comp.ret = "True" /\ cli.output = 1000

\* C13: after a successful concatenation the status becomes compressing exactly when
\* the output is strictly larger than max_size_mb; a job whose output is at most
\* max_size_mb never shows compressing, makes no call of compress_video, and ends
\* completed with was_compressed false and file_size equal to original_size.
C13_CompressOnlyWhenOver ==
    [][\A j \in DOMAIN jobs \cap DOMAIN jobs' :
          /\ (worker[j].pc = "L263" /\ worker'[j].pc # "L263") =>
                (jobs'[j].status.name = "compressing_video" <=> Oversized(j))
          /\ jobs'[j].status.name = "compressing_video" =>
                (worker'[j].original_size # Absent /\ Oversized(j))
          /\ (worker'[j].original_size # Absent /\ ~Oversized(j)) =>
                /\ ~worker'[j].offer.asked
                /\ worker'[j].pc = "done" =>
                      /\ jobs'[j].status.name = "completed"
                      /\ jobs'[j].was_compressed = "False"
                      /\ jobs'[j].file_size = jobs'[j].original_size
                      /\ jobs'[j].file_size = Round1(worker'[j].original_size)]_vars

\* C13 witness: a job whose output is exactly max_size_mb (10 MB) completed
C13_Witness ==
    \E j \in DOMAIN jobs :
        /\ worker[j].pc = "done" /\ worker[j].max_size_mb = 10
        /\ worker[j].original_size = 1000
        /\ jobs[j].status.name = "completed" /\ jobs[j].file_size = 100

\* C14: when the concat engine exits nonzero, the job never shows compressing or
\* completed, records no output_file, makes no compression call and ends failed;
\* process_videos_from_urls returns a falsy success value.
C14_ConcatFailureFailsJob ==
    /\ \A j \in JobIds :
         worker[j].returncode = 1 =>
           /\ ~worker[j].offer.asked
           /\ HasJob(j) =>
                 /\ jobs[j].status.name \notin {"compressing_video", "completed"}
                 /\ jobs[j].output_file = Absent
                 /\ download_video_file(j).code # 200
                 /\ worker[j].pc = "done" =>
                       /\ jobs[j].status.name = "failed"
                       /\ jobs[j].error = Err("Failed to concatenate videos", NoUrl)
    /\ cli.returncode = 1 =>
         /\ cli.pc \in {"L322", "done"}
         /\ cli.ret.success \in {"None", "False"}
         /\ comp.pc = "idle"

\* C14 witness: the engine failed, left a partial file, and the job finished
C14_Witness ==
    \E j \in DOMAIN jobs :
        /\ worker[j].returncode = 1 /\ worker[j].pc = "done"
        /\ outFile[j] = 1804

\* C15: the list handed to the concat engine has one entry per source URL, in
\* submission order, and entry i is a file that holds what was fetched from URL i,
\* also when two URLs end in the same file name or have an empty path.
ManifestInOrder(act) ==
    act.concats > 0 =>
        /\ Len(act.downloaded) = Len(act.urls)
        /\ \A i \in 1..Len(act.urls) : act.held[act.downloaded[i]] = act.urls[i]

C15_ManifestMatchesSources ==
    /\ \A j \in JobIds : ManifestInOrder(worker[j])
    /\ ManifestInOrder(cli)

\* C16: the download endpoint sends a file only for a job whose status is completed,
\* and then the file at output_path; for a job that is queued, downloading,
\* concatenating, compressing or failed it answers 400 'Job not completed' and sends
\* nothing, also when output_path already holds a file.
C16_DownloadOnlyWhenCompleted ==
    \A j \in DOMAIN jobs :
        LET answer == download_video_file(j)
        IN  /\ answer.code = 200 =>
                 /\ jobs[j].status.name = "completed"
                 /\ answer.body.sent = outFile[j]
                 /\ worker[j].pc \in {"L221", "L222", "L229", "done"}
            /\ jobs[j].status.name # "completed" =>
                 /\ answer.code = 400 /\ answer.err = "Job not completed"
                 /\ answer.body.sent = Absent

\* C16 witness: a job shows compressing while its 600 MB output is on disk, and one
\* that failed left a partial output; neither is served
C16_Witness ==
    \E j \in DOMAIN jobs :
        /\ jobs[j].status.name \in {"compressing_video", "failed"}
        /\ outFile[j] \in {1804, 60000}
        /\ download_video_file(j).code = 400

\* C17: a status or download request for an identifier that is not in the registry
\* (never handed out, or reaped) is answered 404 'Job not found' and changes neither
\* the registry nor any file; a download of a completed job whose output file is
\* gone is answered with an error and sends nothing.
UnknownOrGone ==
    /\ \A j \in (1..(MaxJobs + 1)) \ DOMAIN jobs :
         /\ get_status(j).code = 404 /\ get_status(j).err = "Job not found"
         /\ download_video_file(j).code = 404
         /\ download_video_file(j).err = "Job not found"
    /\ \A j \in DOMAIN jobs :
         (jobs[j].status.name = "completed" /\ outFile[j] = Absent) =>
            /\ download_video_file(j).code = 404
            /\ download_video_file(j).body.sent = Absent

C17_UnknownJobNotFound ==
    /\ []UnknownOrGone
    /\ [][http'.err = "Job not found" =>
             /\ http'.op \in {"status", "download"} /\ http'.code = 404
             /\ http'.job \notin DOMAIN jobs
             /\ jobs' = jobs /\ worker' = worker /\ nextId' = nextId
             /\ outFile' = outFile /\ reaper' = reaper]_vars

\* C17 witness: the reaper has removed the output file of a completed job whose
\* record it has not deleted yet, and a request for an unknown identifier was
\* answered
C17_Witness ==
    /\ \E j \in DOMAIN jobs :
         /\ jobs[j].status.name = "completed"
         /\ jobs[j].output_file # Absent /\ outFile[j] = Absent
    /\ http.err = "Job not found"

\* C18: the status answer for a completed record carries download_url, filename,
\* file_size, original_size, was_compressed and compression_ratio, with the values of
\* the record (was_compressed false and compression_ratio 0 when the record has
\* none); for a record in any other status it carries none of them; it carries the
\* error exactly when the record has one.
C18_StatusAnswerFields ==
    (http.op = "status" /\ http.code = 200) =>
        /\ http.job \in DOMAIN jobs
        /\ LET job == jobs[http.job]
               b == http.body
           IN  /\ job.status.name = "completed" =>
                     /\ b.download_url /\ b.filename = OutputName
                     /\ b.file_size = job.file_size
                     /\ b.original_size = job.original_size
                     /\ b.was_compressed =
                          (IF job.was_compressed = "absent" THEN "False"
                           ELSE job.was_compressed)
                     /\ b.compression_ratio =
                          (IF job.compression_ratio = Absent THEN 0
                           ELSE job.compression_ratio)
               /\ job.status.name # "completed" =>
                     /\ ~b.download_url /\ b.filename = "none"
                     /\ b.file_size = Absent /\ b.original_size = Absent
                     /\ b.was_compressed = "none" /\ b.compression_ratio = Absent
               /\ b.error = job.error

\* C18 witness: the answer for a completed job of 10 MB that was not compressed and
\* has no compression_ratio in its record
C18_Witness ==
    /\ http.op = "status" /\ http.body.download_url
    /\ http.body.file_size = 100 /\ http.body.was_compressed = "False"
    /\ http.body.compression_ratio = 0
    /\ jobs[http.job].compression_ratio = Absent

Evicted(j) == j < nextId /\ j \notin DOMAIN jobs
C20_EvictionRemovesArtifacts ==
    \A j \in JobIds :
        (Evicted(j) /\ worker[j].pc = "done") =>
            outFile[j] = Absent /\ tempCompressed[j] = Absent

C22_ReturnsBoolAndString ==
    (cli.pc = "done" /\ cli.ret.success # "raised") =>
        /\ cli.ret.success \in {"True", "False"}
        /\ cli.ret.msg # "[]"

\* C23: under fair scheduling of the worker every started job eventually reaches
\* completed or failed (or is evicted first), even when an external engine process
\* never exits: each engine call is cut short by a timeout.
C23_StartedJobTerminates ==
    \A j \in JobIds :
        (worker[j].pc = "L176") ~> (~HasJob(j) \/ Terminal(jobs[j].status))

\* C24: when a job's worker has finished, on whatever exit path, the temporary
\* directory created for the job has been removed.
C24_TempDirRemovedOnExit ==
    \A j \in JobIds : worker[j].pc = "done" => ~tmpDir[j]

\* C25: one call of compress_video runs the encoder at most 4 times, whatever
\* max_attempts is; attempt k runs with the k-th CRF of 23, 25, 27, 30 and the k-th
\* size factor of 0.95, 0.90, 0.85, 0.80, so the CRF strictly increases and the
\* factor strictly decreases; no attempt follows one whose output was at most the
\* target.
C25_LadderBounded ==
    LET n == Len(comp.params)
    IN  /\ n <= 4 /\ Len(comp.outs) = n
        /\ \A k \in 1..n :
             /\ comp.params[k].crf = <<23, 25, 27, 30>>[k]
             /\ comp.params[k].factor = <<95, 90, 85, 80>>[k]
        /\ \A k \in 1..(n - 1) :
             /\ comp.params[k].crf < comp.params[k + 1].crf
             /\ comp.params[k].factor > comp.params[k + 1].factor
             /\ ~(comp.outs[k].kind = "ok" /\ comp.outs[k].size <= Budget(comp))

\* C25 witness: a caller that passed max_attempts = 1 got four attempts, the fourth
\* of which met the target
C25_Witness ==
    /\ comp.pc = "ret" /\ comp.max_attempts = 1
    /\ Len(comp.params) = 4 /\ comp.params[4].crf = 30
    /\ comp.outs[4].kind = "ok" /\ comp.ret = "True"

\* C26: the video bitrate compress_video hands to the encoder on every ladder
\* attempt is at least 300 kbit/s, for every target and every positive duration.
C26_BitrateAtLeastMinimum ==
    \A k \in 1..Len(comp.params) : comp.params[k].bitrate >= 300000

\* C27: a timeout, a nonzero encoder exit or another exception on attempt k < 4
\* ends that attempt only: compress_video has neither returned nor raised and is
\* about to run attempt k + 1, which gets the next CRF and size factor of the
\* ladder; on attempt 4, no earlier attempt having met the target, compress_video
\* returns False.
AttemptFailed(o) == o.kind \in {"timeout", "nonzero", "raised"}
C27_FailedAttemptAdvances ==
    LET n == Len(comp.outs)
    IN  /\ (n > 0 /\ n < 4 /\ AttemptFailed(comp.outs[n])) =>
              comp.pc = "L95" /\ comp.attempt = n + 1 /\ comp.ret = "none"
        /\ (n = 4 /\ AttemptFailed(comp.outs[n])) =>
              \/ comp.pc = "L95" /\ comp.attempt = 5 /\ comp.ret = "none"
              \/ comp.pc \in {"L176", "ret"} /\ comp.ret = "False"
        /\ \A k \in 2..n :
              AttemptFailed(comp.outs[k - 1]) =>
                 /\ comp.params[k].crf = <<23, 25, 27, 30>>[k]
                 /\ comp.params[k].factor = <<95, 90, 85, 80>>[k]

\* C27 witness: a timeout, a nonzero exit and an exception were each followed by the
\* next attempt, and a timeout on the fourth made the call return False
C27_Witness ==
    /\ comp.pc = "ret" /\ comp.ret = "False" /\ Len(comp.outs) = 4
    /\ comp.outs[1].kind = "timeout" /\ comp.outs[2].kind = "nonzero"
    /\ comp.outs[3].kind = "raised" /\ comp.outs[4].kind = "timeout"

\* C28: when compress_video has returned, with any result and after any mix of
\* attempt outcomes, no temporary output file of any attempt is left on disk.
C28_NoAttemptFileRemains ==
    comp.pc = "ret" => comp.left_behind = 0 /\ comp.temp_output = Absent

\* C29: when compress_video has returned False, whatever the reason, the file at
\* input_path is the file the caller passed: it was not replaced, truncated or
\* deleted.
C29_FalseLeavesInputAlone ==
    (comp.pc = "ret" /\ comp.ret = "False") =>
        comp.input = comp.given /\ comp.input # Absent

\* C29 witness: a timeout and three encodes over the target; the call returned
\* False with the 18.04 MB input in place
C29_Witness ==
    /\ comp.pc = "ret" /\ comp.ret = "False" /\ Len(comp.outs) = 4
    /\ comp.outs[1].kind = "timeout" /\ comp.outs[4].kind = "ok"
    /\ comp.given = 1804 /\ comp.input = 1804

\* C30: compress_video called with a numeric target on a file that is at most the
\* target returns True, without probing the duration, without running the encoder,
\* and with the file unchanged.
C30_UnderTargetIsNoOp ==
    (/\ comp.pc = "ret"
     /\ comp.target_size_mb.kind = "num"
     /\ comp.given <= 100 * comp.target_size_mb.val) =>
        /\ comp.ret = "True"
        /\ ~comp.probed /\ comp.outs = <<>>
        /\ comp.input = comp.given

\* C31: when the duration of an oversized input cannot be obtained (the probe exits
\* nonzero, prints nothing, prints a text that is not a number, or reports 0),
\* compress_video returns False with no encode attempt run and no bitrate computed
\* from the duration, the input is untouched, and process_videos_from_urls still
\* returns success with the uncompressed output in place.
NoDuration(run) ==
    \/ run.rc = 1
    \/ run.rc = 0 /\ run.out \in {"empty", "text"}
    \/ run.rc = 0 /\ run.out = "number" /\ run.val = 0
C31_NoDurationFailsLocally ==
    (comp.probed /\ NoDuration(comp.probe)) =>
        /\ comp.pc = "ret" /\ comp.ret = "False"
        /\ comp.outs = <<>> /\ comp.params = <<>>
        /\ comp.input = comp.given
        /\ cli.pc = "done" =>
              /\ cli.ret.success = "True"
              /\ cli.output = cli.made /\ cli.ret.size = Round1(cli.made)

\* C31 witness: the probe of an 18.04 MB concatenation printed a text that is not a
\* number; the command line returned success with the 18.04 MB file
C31_Witness ==
    /\ comp.probe = ProbeRun(0, "text", 0) /\ comp.ret = "False"
    /\ cli.pc = "done" /\ cli.ret.success = "True"
    /\ cli.made = 1804 /\ cli.output = 1804 /\ Len(cli.urls) = 2

\* C32: the manifest (list) file of the concat step exists only while the step is
\* running: once concatenate_videos_with_tracking or concatenate_videos has
\* returned, after an engine success, a nonzero exit or an exception in the engine
\* run, the size check or the compression, the file is gone.
InConcatStep == {"L255", "L260", "L263", "L273", "L281", "L289", "L301", "blocked"}
C32_ManifestRemoved ==
    /\ \A j \in JobIds : manifest[j] => worker[j].pc \in InConcatStep
    /\ cli.concat_file => cli.pc = "blocked"

\* C32 witness: the compression call raised inside the concat step, the step
\* returned False and the job ended failed, with the list file removed
C32_Witness ==
    \E j \in DOMAIN jobs :
        /\ worker[j].offer.asked /\ worker[j].returncode = 0
        /\ worker[j].pc = "done" /\ jobs[j].status.name = "failed"
        /\ ~manifest[j]

\* ------------------------------------------------------------------ C33
\* what the registry and the file system hold for job b
RecordOf(b) == IF HasJob(b) THEN <<jobs[b]>> ELSE <<>>
FilesOf(b) == <<outFile[b], tmpDir[b], manifest[b], tempCompressed[b]>>

\* a step of the worker of job a, or the submission that starts it
WorkerStep(a) == worker'[a] # worker[a]

\* C33: with two jobs and requests interleaved at will, a step of the worker of
\* job A leaves the registry record of every other job B, and B's output file,
\* temp directory, list file and compressed file, as they were; and a step that
\* answers a status or a download request leaves the whole registry as it was.
C33_WorkerWritesOwnJobOnly ==
    [][/\ \A a, b \in PairIds :
              (a # b /\ WorkerStep(a)) =>
                  /\ RecordOf(b)' = RecordOf(b)
                  /\ FilesOf(b)' = FilesOf(b)
       /\ (http'.op \in {"status", "download"}) => jobs' = jobs]_vars

\* C33 witness: both jobs are in the registry with their workers mid-run, one
\* concatenating and one still downloading, each with its own temp directory
C33_Witness ==
    /\ HasJob(1) /\ HasJob(2)
    /\ jobs[1].status.name = "concatenating_videos"
    /\ jobs[2].status.name = "downloading_video"
    /\ tmpDir[1] /\ tmpDir[2]
    /\ worker[1].pc \notin {"idle", "done", "crashed"}
    /\ worker[2].pc \notin {"idle", "done", "crashed"}

\* ------------------------------------------------------------------ C34
\* C34: the reaper removes a job from the registry only when its status is
\* completed or failed, and no worker ends on an uncaught exception (every worker
\* that ends has recorded completed or failed in a record that is still there to
\* be written).
C34_ReaperEvictsOnlyTerminal ==
    /\ [](\A j \in JobIds : worker[j].pc # "crashed")
    /\ [][\A j \in JobIds :
              (HasJob(j) /\ ~HasJob(j)') => Terminal(jobs[j].status)]_vars

\* ------------------------------------------------------------------ C35
\* C35: a pass of cleanup_old_jobs is never aborted and the cleanup loop never
\* stops, whatever the request threads insert into the registry while
\* the pass iterates over it.
C35_CleanupLoopSurvives == reaper.pc # "dead"

\* ------------------------------------------------------------------ C36
\* the non-terminal statuses of a job with n URLs
NonTerminalStatuses(n) ==
    {St("queued"), St("concatenating_videos"), St("compressing_video")}
        \cup {Status("downloading_video", i, n) : i \in 1..n}

\* the statuses before the last one written
EarlierWritten(w) == {w.written[k] : k \in 1..(Len(w.written) - 1)}

\* the worker of job j returned and the last status it wrote is failed
EndedFailed(j) ==
    /\ HasJob(j) /\ worker[j].pc = "done"
    /\ worker[j].written # <<>>
    /\ worker[j].written[Len(worker[j].written)].name = "failed"

\* C36: a run of a job that ends failed went through non-terminal statuses only
\* before (failed is the first terminal status after each of them), and the record
\* then holds an error; the witness is a run that ends this way after it held
\* every non-terminal status in turn.
C36_FailedRunRecordsError ==
    \A j \in JobIds :
        EndedFailed(j) =>
            /\ \A st \in EarlierWritten(worker[j]) : ~Terminal(st)
            /\ jobs[j].status.name = "failed"
            /\ jobs[j].error # NoError

\* C36 witness: a job with the most URLs was queued, downloading 1 of n up to n of
\* n, concatenating and compressing, and then failed with an error in its record
C36_Witness ==
    \E j \in JobIds :
        /\ EndedFailed(j)
        /\ Len(worker[j].urls) = MaxUrls
        /\ NonTerminalStatuses(MaxUrls) \subseteq EarlierWritten(worker[j])
        /\ jobs[j].error # NoError

====
